---- MODULE Spec2Model ----
(***************************************************************************)
(* A state-machine model of gqcnn/analyzer.py: one call of                 *)
(* GQCNNAnalyzer.analyze(model_dir, output_dir, dataset_config).           *)
(*                                                                         *)
(* Paths are sequences of tokens; the tokens of model_dir are single       *)
(* characters, so os.path.split / os.path.join are modelled character by   *)
(* character.  Datapoint and shard indices are 0-based as in the code;     *)
(* TLA+ sequences are 1-based, so element idx of an array a is a[idx+1].   *)
(***************************************************************************)
EXTENDS Integers, Sequences, FiniteSets, TLC

\* ------------------------------------------------------------------ bounds
MaxPathLen == 3
NumShards == 2
ShardSize == 3
MaxVis == 2
MaxBins == 3

\* ------------------------------------------------------------- vocabulary
\* Python's None, where a dict or an object may stand
NoneVal == [none |-> TRUE]
SEP == "/"
Chars == {SEP, "a"}
PARALLEL_JAW == "parallel_jaw"
LEGACY_PARALLEL_JAW == "legacy_parallel_jaw"
SUCTION == "suction"

Min(a, b) == IF a < b THEN a ELSE b

Range(s) == {s[x] : x \in 1..Len(s)}

\* ------------------------------------------------------------ os.path
\* str.rfind('/') + 1: the 1-based position of the last separator, 0 if none
LastSep(p) == IF \E x \in 1..Len(p) : p[x] = SEP
              THEN CHOOSE x \in 1..Len(p) : p[x] = SEP /\ \A y \in (x+1)..Len(p) : p[y] # SEP
              ELSE 0

AllSep(p) == \A x \in 1..Len(p) : p[x] = SEP

\* str.rstrip('/')
RECURSIVE RStrip(_)
RStrip(p) == IF p # <<>> /\ p[Len(p)] = SEP THEN RStrip(SubSeq(p, 1, Len(p) - 1)) ELSE p

\* posixpath.split(p) -> <<head, tail>>
PathSplit(p) ==
    LET i == LastSep(p)
        head == SubSeq(p, 1, i)
        tail == SubSeq(p, i + 1, Len(p))
    IN  <<IF head # <<>> /\ ~AllSep(head) THEN RStrip(head) ELSE head, tail>>

\* posixpath.join(a, b)
PathJoin(a, b) ==
    IF b # <<>> /\ b[1] = SEP THEN b
    ELSE IF a = <<>> \/ a[Len(a)] = SEP THEN a \o b
    ELSE a \o <<SEP>> \o b

\* the directory a path names, as os.path.exists / os.mkdir resolve it
\* (trailing separators do not matter)
NormDir(p) == IF AllSep(p) THEN p ELSE RStrip(p)

\* '%03d' % i, as digit characters (sequence numbers stay below 1000 here)
Digit(n) == <<"0", "1", "2", "3", "4", "5", "6", "7", "8", "9">>[n + 1]
Pad3(n) == <<Digit((n \div 100) % 10), Digit((n \div 10) % 10), Digit(n % 10)>>

\* ------------------------------------------------------- numpy helpers
\* a[idx] for a 0-based index
At(a, idx) == a[idx + 1]

\* a[indices] (integer-array indexing): one entry per index, in index order
TakeIndices(a, indices) == [j \in 1..Len(indices) |-> At(a, indices[j])]

\* an aggregation that puts the newest shard first
ExtendFront(all, arr) == arr \o all

\* list.extend
Extend(all, arr) == all \o arr

\* a slice that keeps one entry too many
TruncateOneMore(a, n) == SubSeq(a, 1, Min(n + 1, Len(a)))

\* a[:n] for n >= 0
Truncate(a, n) == SubSeq(a, 1, Min(n, Len(a)))

\* the ascending sequence of a finite set of integers (np.where(...)[0])
RECURSIVE Ascending(_)
Ascending(S) ==
    IF S = {} THEN <<>>
    ELSE LET m == CHOOSE x \in S : \A y \in S : x <= y
         IN  <<m>> \o Ascending(S \ {m})

\* every order np.random.shuffle can leave an array in
RECURSIVE Shuffles(_)
Shuffles(S) ==
    IF S = {} THEN {<<>>}
    ELSE UNION {{<<x>> \o p : p \in Shuffles(S \ {x})} : x \in S}

\* --------------------------------------------------------------- dataset
\* The dataset holds NumShards shards ("tensors") of ShardSize datapoints.
NumDatapoints == NumShards * ShardSize
Datapoints == 0..(NumDatapoints - 1)
MetricVals == 0..2
\* positive-class probabilities, in percent
ProbVals == <<25, 75>>

\* dataset.tensor(field, i).arr: the slice of a per-datapoint field held by shard i
TensorArr(field, i) == SubSeq(field, i * ShardSize + 1, (i + 1) * ShardSize)

\* dataset.datapoint(k, field_names=[image, pose])
Datapoint(ds, k) == [image |-> k, pose |-> At(ds.pose, k)]

\* the metric fields the runs read: ramps over the metric values, rotated by a
MetricRamp(a) == [d \in 1..NumDatapoints |-> (a + d - 1) % Cardinality(MetricVals)]
\* the model's answers: blocks of two equal probabilities, rotated by b
ProbRamp(b) == [d \in 1..NumDatapoints |-> ProbVals[((b + (d - 1) \div 2) % Len(ProbVals)) + 1]]
\* pose vectors [x, y, depth, theta, width]
PoseField == [d \in 1..NumDatapoints |-> <<0, 0, 10 + d, 0, 20 + d>>]

\* the splits the runs use: nt training indices then nv validation indices taken
\* from the datapoints in ascending or descending order; the rest is held out
Order(rev) == [x \in 1..NumDatapoints |-> IF rev THEN NumDatapoints - x ELSE x - 1]
SplitOf(rev, nt, nv) == [train |-> SubSeq(Order(rev), 1, nt),
                         val   |-> SubSeq(Order(rev), nt + 1, nt + nv)]
Splits == UNION {{SplitOf(rev, nt, nv) : rev \in BOOLEAN, nv \in 0..(NumDatapoints - nt)} :
                    nt \in 0..NumDatapoints}

Datasets == {[metric |-> MetricRamp(a), pose |-> PoseField, split |-> sp] :
                a \in MetricVals, sp \in Splits}

GripperModes == {PARALLEL_JAW, SUCTION}
\* a trained model: its pose-encoding mode, its conv1 filter count and its answers
Models == {[gripper_mode |-> g, num_filt |-> 1, probs |-> ProbRamp(b)] :
              g \in GripperModes, b \in 0..(Len(ProbVals) - 1)}

\* ---------------------------------------------------------- configuration
Thresholds == {1, 2}
ModelConfigs == {[dataset_dir |-> "m_dir", split_name |-> "m_split",
                  image_field_name |-> "m_image", pose_field_name |-> "m_pose",
                  target_metric_name |-> "m_metric", metric_thresh |-> t] : t \in Thresholds}
DatasetConfigs == {[dataset_dir |-> "d_dir", split_name |-> "d_split",
                    image_field_name |-> "d_image", pose_field_name |-> "d_pose",
                    target_metric_name |-> "d_metric", metric_thresh |-> t,
                    gripper_mode |-> g] : t \in Thresholds, g \in GripperModes}

\* the keys read at 155-160 or 162-167, and dicts that lack one of the keys read
ParamKeys == {"dataset_dir", "split_name", "image_field_name", "pose_field_name",
              "target_metric_name", "metric_thresh"}
PartialModelConfigs == {[dataset_dir |-> "m_dir", split_name |-> "m_split",
                         image_field_name |-> "m_image", pose_field_name |-> "m_pose",
                         target_metric_name |-> "m_metric"]}
PartialDatasetConfigs ==
    {[dataset_dir |-> "d_dir", split_name |-> "d_split", image_field_name |-> "d_image",
      pose_field_name |-> "d_pose", target_metric_name |-> "d_metric", metric_thresh |-> 1],
     [dataset_dir |-> "d_dir", image_field_name |-> "d_image", pose_field_name |-> "d_pose",
      target_metric_name |-> "d_metric", metric_thresh |-> 1, gripper_mode |-> SUCTION]}

Paths == UNION {[1..n -> Chars] : n \in 0..MaxPathLen}
output_dir == <<"out">>

\* ------------------------------------------- BinaryClassificationResult
\* (autolab_core; used here through the attributes analyzer.py reads)
Result(pred_probs, labels) == [pred_probs |-> pred_probs, labels |-> labels]
NumResultDatapoints(r) == Len(r.pred_probs)
\* the rounded prediction at the decision boundary 0.5
Predicted(p) == IF 2 * p > 100 THEN 1 ELSE 0

CategoryNames == <<"true_positive", "false_positive", "true_negative", "false_negative">>
InCategory(r, j, c) ==
    LET pl == Predicted(At(r.pred_probs, j))
        l  == At(r.labels, j)
    IN  CASE c = "true_positive"  -> pl = 1 /\ l = 1
          [] c = "false_positive" -> pl = 1 /\ l = 0
          [] c = "true_negative"  -> pl = 0 /\ l = 0
          [] c = "false_negative" -> pl = 0 /\ l = 1
\* result.<category>_indices, before the shuffle
CategoryIndexSet(r, c) == {j \in 0..(NumResultDatapoints(r) - 1) : InCategory(r, j, c)}

\* exact fractions <<numerator, denominator>>
Frac(n, d) == <<n, d>>
FracAdd(x, y) == <<x[1] * y[2] + y[1] * x[2], x[2] * y[2]>>
InUnitInterval(x) == x[2] > 0 /\ 0 <= x[1] /\ x[1] <= x[2]

Positives(r) == {j \in 0..(NumResultDatapoints(r) - 1) : At(r.labels, j) = 1}
Negatives(r) == {j \in 0..(NumResultDatapoints(r) - 1) : At(r.labels, j) = 0}

\* the scores exist only for a result holding both classes: sklearn's roc_auc_score
\* raises on labels of a single class (or none)
ScoresDefined(r) == Positives(r) # {} /\ Negatives(r) # {}

\* error_rate: the share of datapoints whose rounded prediction differs from the label
ErrorRate(r) ==
    Frac(Cardinality({j \in 0..(NumResultDatapoints(r) - 1) :
                         Predicted(At(r.pred_probs, j)) # At(r.labels, j)}),
         NumResultDatapoints(r))

\* auc_score: the share of (positive, negative) pairs ranked correctly, ties counting half
AucScore(r) ==
    LET pairs == Positives(r) \X Negatives(r)
        above == {pr \in pairs : At(r.pred_probs, pr[1]) > At(r.pred_probs, pr[2])}
        ties  == {pr \in pairs : At(r.pred_probs, pr[1]) = At(r.pred_probs, pr[2])}
    IN  Frac(2 * Cardinality(above) + Cardinality(ties), 2 * Cardinality(pairs))

\* ap_score: sum over the distinct scores t, descending, of (recall step) * precision
TruePositivesAt(r, t) == Cardinality({j \in Positives(r) : At(r.pred_probs, j) >= t})
FalsePositivesAt(r, t) == Cardinality({j \in Negatives(r) : At(r.pred_probs, j) >= t})
RECURSIVE ApSum(_, _, _)
ApSum(r, scores, prev_tp) ==
    IF scores = {} THEN Frac(0, 1)
    ELSE LET t  == CHOOSE x \in scores : \A y \in scores : x >= y
             tp == TruePositivesAt(r, t)
             fp == FalsePositivesAt(r, t)
         IN  FracAdd(Frac((tp - prev_tp) * tp, Cardinality(Positives(r)) * (tp + fp)),
                     ApSum(r, scores \ {t}, tp))
ApScore(r) == ApSum(r, Range(r.pred_probs), 0)

\* ---------------------------------------------------------------- state
VARIABLES
    \* the call's arguments, the analyzer's configuration and the world it reads
    model_dir, dataset_config, config_json, gqcnn, dataset, num_vis, num_bins,
    \* the filesystem: existing directories, and the files written, in order
    dirs, written,
    \* the calls made on the model handle, in order
    session,
    \* control and locals of analyze / _run_prediction_single_model / _plot
    pc, model_root, model_name, model_output_dir, model_config, params, gripper_mode,
    train_indices, val_indices, i, all_predictions, all_labels,
    train_result, val_result, cat, cat_indices, ex_i,
    \* the current figure of the plotting library
    fig

inputs == <<model_dir, dataset_config, config_json, gqcnn, dataset, num_vis, num_bins>>
locals == <<model_root, model_name, model_output_dir, model_config, params, gripper_mode,
            train_indices, val_indices, i, all_predictions, all_labels,
            train_result, val_result, cat, cat_indices, ex_i>>
vars == <<inputs, dirs, written, session, pc, locals, fig>>

NoParams == [dataset_dir |-> "", split_name |-> "", image_field_name |-> "",
             pose_field_name |-> "", metric_name |-> "", metric_thresh |-> 0]
EmptyFigure == [image |-> [shown |-> FALSE], grasp |-> [type |-> "none"], title |-> <<>>]

\* a run's model name when it has one, used for a directory left by an earlier run
EarlierOutputDir == output_dir \o <<SEP, "a">>

\* the state of every run before its first statement
Start ==
    /\ written = <<>>
    /\ session = <<>>
    /\ pc = "name"
    /\ model_root = model_dir
    /\ model_name = <<>>
    /\ model_output_dir = <<>>
    /\ model_config = NoneVal
    /\ params = NoParams
    /\ gripper_mode = ""
    /\ train_indices = <<>>
    /\ val_indices = <<>>
    /\ i = 0
    /\ all_predictions = <<>>
    /\ all_labels = <<>>
    /\ train_result = NoneVal
    /\ val_result = NoneVal
    /\ cat = 0
    /\ cat_indices = <<>>
    /\ ex_i = 0
    /\ fig = EmptyFigure

\* one fixed set of inputs whose run completes: two training datapoints (a false
\* negative and a true negative), the rest validation (with a false positive and
\* a true positive among them)
TypicalDataset == [metric |-> MetricRamp(2), pose |-> PoseField,
                   split |-> SplitOf(FALSE, 2, NumDatapoints - 2)]
TypicalModel == [gripper_mode |-> PARALLEL_JAW, num_filt |-> 1, probs |-> ProbRamp(0)]
TypicalConfig == CHOOSE c \in ModelConfigs : c.metric_thresh = 1
TypicalDir == <<"a", SEP>>

\* runs over every dataset, split, model answer and example cap
InitData ==
    /\ model_dir = TypicalDir
    /\ dataset_config = NoneVal
    /\ config_json = TypicalConfig
    /\ gqcnn \in {m \in Models : m.gripper_mode = PARALLEL_JAW}
    /\ dataset \in Datasets
    /\ num_vis \in 0..MaxVis
    /\ num_bins = MaxBins
    /\ dirs = {output_dir}

\* runs over every analyzer configuration and gripper mode
InitAnalyzer ==
    /\ model_dir = TypicalDir
    /\ dataset_config = NoneVal
    /\ config_json = TypicalConfig
    /\ gqcnn \in {m \in Models : m.probs = TypicalModel.probs}
    /\ dataset = TypicalDataset
    /\ num_vis \in 0..MaxVis
    /\ num_bins \in 1..MaxBins
    /\ dirs = {output_dir}

\* runs over every model_dir, into a fresh or an already populated output_dir
InitPath ==
    /\ model_dir \in Paths
    /\ dataset_config = NoneVal
    /\ config_json = TypicalConfig
    /\ gqcnn = TypicalModel
    /\ dataset = TypicalDataset
    /\ num_vis = 1
    /\ num_bins = 1
    /\ dirs \in {{output_dir}, {output_dir, EarlierOutputDir}}

\* runs over every pairing of config.json, dataset_config and model
InitConfig ==
    /\ model_dir = TypicalDir
    /\ dataset_config \in {NoneVal} \cup DatasetConfigs \cup PartialDatasetConfigs
    /\ config_json \in ModelConfigs \cup PartialModelConfigs
    /\ gqcnn \in {[TypicalModel EXCEPT !.gripper_mode = g, !.num_filt = n] :
                     g \in GripperModes, n \in 0..1}
    /\ dataset = TypicalDataset
    /\ num_vis = 1
    /\ num_bins = 1
    /\ dirs = {output_dir}

Init == (InitData \/ InitAnalyzer \/ InitPath \/ InitConfig) /\ Start

\* ------------------------------------------------------------- files
File(path, content) == [path |-> path, content |-> content]
Named(name) == PathJoin(model_output_dir, <<name>>)
Plain == [kind |-> "plain"]

\* --------------------------------------------------- analyze: model name
\* while model_name == '' and model_root != ''
NameLoopGuard == model_name = <<>> /\ model_root # <<>>

\* model_root, model_name = os.path.split(model_root)
SplitModelRoot ==
    /\ pc = "name"
    /\ NameLoopGuard
    /\ model_root' = PathSplit(model_root)[1]
    /\ model_name' = PathSplit(model_root)[2]
    /\ UNCHANGED <<inputs, dirs, written, session, pc, model_output_dir, model_config,
                   params, gripper_mode, train_indices, val_indices, i, all_predictions,
                   all_labels, train_result, val_result, cat, cat_indices, ex_i, fig>>

\* os.mkdir, after the os.path.exists test
MakeDir(existing, path) == existing \cup {NormDir(path)}

\* model_output_dir = os.path.join(output_dir, model_name), created if absent
MakeOutputDir ==
    /\ pc = "name"
    /\ ~NameLoopGuard
    /\ model_output_dir' = PathJoin(output_dir, model_name)
    /\ dirs' = MakeDir(dirs, model_output_dir')
    /\ pc' = "config"
    /\ UNCHANGED <<inputs, written, session, model_root, model_name, model_config,
                   params, gripper_mode, train_indices, val_indices, i, all_predictions,
                   all_labels, train_result, val_result, cat, cat_indices, ex_i, fig>>

\* ------------------------------------------- _run_prediction_single_model
\* model_config = json.load(open(model_dir/config.json))
LoadModelConfig ==
    /\ pc = "config"
    /\ model_config' = config_json
    /\ pc' = "load"
    /\ UNCHANGED <<inputs, dirs, written, session, model_root, model_name,
                   model_output_dir, params, gripper_mode, train_indices, val_indices, i,
                   all_predictions, all_labels, train_result, val_result, cat,
                   cat_indices, ex_i, fig>>

\* gqcnn = GQCNN.load(model_dir); gqcnn.open_session(); gripper_mode = gqcnn.gripper_mode
LoadModel ==
    /\ pc = "load"
    /\ session' = session \o <<<<"load">>, <<"open_session">>, <<"gripper_mode">>>>
    /\ gripper_mode' = gqcnn.gripper_mode
    /\ pc' = "params"
    /\ UNCHANGED <<inputs, dirs, written, model_root, model_name, model_output_dir,
                   model_config, params, train_indices, val_indices, i, all_predictions,
                   all_labels, train_result, val_result, cat, cat_indices, ex_i, fig>>

\* a reader that ignores dataset_config
ParamSourceModelConfig(given, loaded) == loaded

\* the dict the six dataset parameters are read from
ParamSource(given, loaded) == IF given = NoneVal THEN loaded ELSE given

\* the gripper mode after the if/else: the handle's unless dataset_config is given
GripperModeFor(given, handle_mode) ==
    IF given = NoneVal THEN handle_mode ELSE given.gripper_mode

\* whether every subscript of the branch taken finds its key
HasParamKeys(given, loaded) ==
    /\ ParamKeys \subseteq DOMAIN ParamSource(given, loaded)
    /\ given # NoneVal => "gripper_mode" \in DOMAIN given

\* the if/else reading the parameters; a missing key raises KeyError
ReadParams ==
    /\ pc = "params"
    /\ IF HasParamKeys(dataset_config, model_config)
       THEN /\ LET c == ParamSource(dataset_config, model_config)
               IN  params' = [dataset_dir |-> c.dataset_dir,
                              split_name |-> c.split_name,
                              image_field_name |-> c.image_field_name,
                              pose_field_name |-> c.pose_field_name,
                              metric_name |-> c.target_metric_name,
                              metric_thresh |-> c.metric_thresh]
            /\ gripper_mode' = GripperModeFor(dataset_config, gripper_mode)
            /\ pc' = "dataset"
       ELSE /\ pc' = "failed_params"
            /\ UNCHANGED <<params, gripper_mode>>
    /\ UNCHANGED <<inputs, dirs, written, session, model_root, model_name,
                   model_output_dir, model_config, train_indices, val_indices, i,
                   all_predictions, all_labels, train_result, val_result, cat,
                   cat_indices, ex_i, fig>>

\* dataset = TensorDataset.open(dataset_dir); train_indices, val_indices, _ = dataset.split(..)
OpenDataset ==
    /\ pc = "dataset"
    /\ train_indices' = dataset.split.train
    /\ val_indices' = dataset.split.val
    /\ pc' = "filters"
    /\ UNCHANGED <<inputs, dirs, written, session, model_root, model_name,
                   model_output_dir, model_config, params, gripper_mode, i,
                   all_predictions, all_labels, train_result, val_result, cat,
                   cat_indices, ex_i, fig>>

\* TensorDataset.open or dataset.split raises (no dataset at dataset_dir, no split
\* of that name): nothing catches it
OpenDatasetFails ==
    /\ pc = "dataset"
    /\ pc' = "failed_dataset"
    /\ UNCHANGED <<inputs, dirs, written, session, locals, fig>>

\* the conv1 filter grid; figname is bound inside the loop over the filters, so a
\* model without filters fails at savefig
VisualizeFilters ==
    /\ pc = "filters"
    /\ session' = Append(session, <<"filters">>)
    /\ IF gqcnn.num_filt > 0
       THEN /\ written' = Append(written, File(Named("conv1_filters.pdf"), Plain))
            /\ fig' = [EmptyFigure EXCEPT !.image = [shown |-> TRUE, of |-> "filters"]]
            /\ pc' = "predict"
       ELSE /\ pc' = "failed_filters"
            /\ UNCHANGED <<written, fig>>
    /\ i' = 0
    /\ all_predictions' = <<>>
    /\ all_labels' = <<>>
    /\ UNCHANGED <<inputs, dirs, model_root, model_name, model_output_dir, model_config,
                   params, gripper_mode, train_indices, val_indices, train_result,
                   val_result, cat, cat_indices, ex_i>>

\* a comparison that lets the boundary value through
BinarizeAtLeast(metric, thresh) == IF metric >= thresh THEN 1 ELSE 0

\* 1 * (metric > metric_thresh), as uint8
Binarize(metric, thresh) == IF metric > thresh THEN 1 ELSE 0

\* gqcnn.predict(image_arr, pose_arr): one (negative, positive) pair per datapoint
Predict(gq, shard) ==
    LET p == TensorArr(gq.probs, shard) IN [x \in 1..Len(p) |-> <<100 - p[x], p[x]>>]

\* predictions[:,1]
PositiveColumn(predictions) == [x \in 1..Len(predictions) |-> predictions[x][2]]

\* range(dataset.num_tensors), as the successor of a shard index
NextShard(shard) == shard + 1

\* one iteration of the loop over the shards
PredictShard ==
    /\ pc = "predict"
    /\ i < NumShards
    /\ LET metric_arr == TensorArr(dataset.metric, i)
           label_arr == [x \in 1..Len(metric_arr) |->
                            Binarize(metric_arr[x], params.metric_thresh)]
           predictions == Predict(gqcnn, i)
       IN  /\ all_predictions' = Extend(all_predictions, PositiveColumn(predictions))
           /\ all_labels' = Extend(all_labels, label_arr)
    /\ session' = Append(session, <<"predict", i>>)
    /\ i' = NextShard(i)
    /\ UNCHANGED <<inputs, dirs, written, pc, model_root, model_name, model_output_dir,
                   model_config, params, gripper_mode, train_indices, val_indices,
                   train_result, val_result, cat, cat_indices, ex_i, fig>>

\* a failing iteration wrapped in a handler that closes the session
PredictShardFailsClosing ==
    /\ pc = "predict"
    /\ i < NumShards
    /\ \E called \in BOOLEAN :
          session' = (IF called THEN Append(session, <<"predict", i>>) ELSE session)
                         \o <<<<"close_session">>>>
    /\ pc' = "failed_predict"
    /\ UNCHANGED <<inputs, dirs, written, locals, fig>>

\* an iteration that raises, either before inference is called (reading a shard,
\* read_pose_data) or inside gqcnn.predict: nothing catches it
PredictShardFails ==
    /\ pc = "predict"
    /\ i < NumShards
    /\ \E called \in BOOLEAN :
          session' = IF called THEN Append(session, <<"predict", i>>) ELSE session
    /\ pc' = "failed_predict"
    /\ UNCHANGED <<inputs, dirs, written, locals, fig>>

\* leaving the loop without closing the session
CloseSessionForgotten ==
    /\ pc = "predict"
    /\ i >= NumShards
    /\ pc' = "results"
    /\ UNCHANGED <<inputs, dirs, written, session, model_root, model_name,
                   model_output_dir, model_config, params, gripper_mode, train_indices,
                   val_indices, i, all_predictions, all_labels, train_result, val_result,
                   cat, cat_indices, ex_i, fig>>

\* gqcnn.close_session()
CloseSession ==
    /\ pc = "predict"
    /\ i >= NumShards
    /\ session' = Append(session, <<"close_session">>)
    /\ pc' = "results"
    /\ UNCHANGED <<inputs, dirs, written, model_root, model_name, model_output_dir,
                   model_config, params, gripper_mode, train_indices, val_indices, i,
                   all_predictions, all_labels, train_result, val_result, cat,
                   cat_indices, ex_i, fig>>

\* BinaryClassificationResult(all_predictions[indices], all_labels[indices])
SplitResult(predictions, labels, indices) ==
    Result(TakeIndices(predictions, indices), TakeIndices(labels, indices))

\* building the two results without saving them
BuildResultsUnsaved ==
    /\ pc = "results"
    /\ train_result' = SplitResult(all_predictions, all_labels, train_indices)
    /\ val_result' = SplitResult(all_predictions, all_labels, val_indices)
    /\ fig' = EmptyFigure
    /\ cat' = 1
    /\ pc' = "shuffle"
    /\ UNCHANGED <<inputs, dirs, written, session, model_root, model_name,
                   model_output_dir, model_config, params, gripper_mode, train_indices,
                   val_indices, i, all_predictions, all_labels, cat_indices, ex_i>>

\* the two results, saved as train_result.cres and val_result.cres
BuildResults ==
    /\ pc = "results"
    /\ train_result' = SplitResult(all_predictions, all_labels, train_indices)
    /\ val_result' = SplitResult(all_predictions, all_labels, val_indices)
    /\ written' = written \o <<File(Named("train_result.cres"), [kind |-> "result", of |-> "train"]),
                               File(Named("val_result.cres"), [kind |-> "result", of |-> "val"])>>
    /\ fig' = EmptyFigure
    /\ cat' = 1
    /\ pc' = "shuffle"
    /\ UNCHANGED <<inputs, dirs, session, model_root, model_name, model_output_dir,
                   model_config, params, gripper_mode, train_indices, val_indices, i,
                   all_predictions, all_labels, cat_indices, ex_i>>

\* ------------------------------------------------------ example renderer
\* The eight blocks of the renderer, in source order: 1..4 are the training
\* true positives, false positives, true negatives and false negatives, 5..8
\* the validation ones.
NumCategories == 2 * Len(CategoryNames)
CatSplit(c) == IF c <= Len(CategoryNames) THEN "train" ELSE "val"
CatName(c) == CategoryNames[((c - 1) % Len(CategoryNames)) + 1]
CatOf(split, name) == CHOOSE c \in 1..NumCategories : CatSplit(c) = split /\ CatName(c) = name
\* the result and the index list a block reads
CatResult(c) == IF CatSplit(c) = "train" THEN train_result ELSE val_result
CatSplitIndices(c) == IF CatSplit(c) = "train" THEN train_indices ELSE val_indices

ExampleDir == PathJoin(model_output_dir, <<"examples">>)
SplitExampleDir(split) == PathJoin(ExampleDir, <<split>>)
\* '<category>_%03d.png' % (i) under the split's example directory
ExamplePath(c, n) ==
    PathJoin(SplitExampleDir(CatSplit(c)), <<CatName(c), "_">> \o Pad3(n) \o <<".png">>)

\* the directories a block finds or creates before its loop
DirsBefore(c, existing) ==
    IF c = CatOf("train", "true_positive")
    THEN MakeDir(MakeDir(existing, ExampleDir), SplitExampleDir("train"))
    ELSE IF c = CatOf("val", "true_positive")
    THEN MakeDir(existing, SplitExampleDir("val"))
    ELSE existing

\* <category>_indices, shuffled, truncated to num_vis
BeginCategory ==
    /\ pc = "shuffle"
    /\ \E shuffled \in Shuffles(CategoryIndexSet(CatResult(cat), CatName(cat))) :
          cat_indices' = Truncate(shuffled, num_vis)
    /\ ex_i' = 0
    /\ dirs' = DirsBefore(cat, dirs)
    /\ pc' = "render"
    /\ UNCHANGED <<inputs, written, session, model_root, model_name, model_output_dir,
                   model_config, params, gripper_mode, train_indices, val_indices, i,
                   all_predictions, all_labels, train_result, val_result, cat, fig>>

\* _plot_grasp: the depth image with the grasp drawn over it
PlotGrasp(datapoint, mode) ==
    LET depth == At(datapoint.pose, 2)
    IN  IF mode = PARALLEL_JAW \/ mode = LEGACY_PARALLEL_JAW
        THEN [image |-> [shown |-> TRUE, of |-> datapoint.image],
              grasp |-> [type |-> "Grasp2D", depth |-> depth,
                         width |-> datapoint.pose[Len(datapoint.pose)]]]
        ELSE [image |-> [shown |-> TRUE, of |-> datapoint.image],
              grasp |-> [type |-> "SuctionPoint2D", depth |-> depth, width |-> 0]]

\* vis2d.imshow(DepthImage(...)) alone
ShowImage(datapoint) ==
    [image |-> [shown |-> TRUE, of |-> datapoint.image], grasp |-> [type |-> "none"]]

\* what a block draws after vis2d.clf(): every block calls _plot_grasp except
\* the validation false positives, which call imshow only
DrawExample(c, datapoint, mode) ==
    IF c = CatOf("val", "false_positive") THEN ShowImage(datapoint)
    ELSE PlotGrasp(datapoint, mode)

\* a block that fetches the datapoint at the category index itself
ExampleFigureOfPosition(c, j) ==
    LET k == At(CatSplitIndices(c), j)
        datapoint == Datapoint(dataset, j)
        drawn == DrawExample(c, datapoint, gripper_mode)
    IN  [image |-> drawn.image, grasp |-> drawn.grasp,
         title |-> <<k, At(CatResult(c).pred_probs, j), At(CatResult(c).labels, j)>>]

\* the figure a block saves for entry j of its category
ExampleFigure(c, j) ==
    LET k == At(CatSplitIndices(c), j)
        datapoint == Datapoint(dataset, k)
        drawn == DrawExample(c, datapoint, gripper_mode)
    IN  [image |-> drawn.image, grasp |-> drawn.grasp,
         title |-> <<k, At(CatResult(c).pred_probs, j), At(CatResult(c).labels, j)>>]

\* one iteration of a block's loop: for i, j in enumerate(<category>_indices)
RenderExample ==
    /\ pc = "render"
    /\ ex_i < Len(cat_indices)
    /\ fig' = ExampleFigure(cat, At(cat_indices, ex_i))
    /\ written' = Append(written, File(ExamplePath(cat, ex_i),
                                       [kind |-> "example", overlay |-> fig'.grasp.type]))
    /\ ex_i' = ex_i + 1
    /\ UNCHANGED <<inputs, dirs, session, pc, model_root, model_name, model_output_dir,
                   model_config, params, gripper_mode, train_indices, val_indices, i,
                   all_predictions, all_labels, train_result, val_result, cat,
                   cat_indices>>

\* a handler that saves the training summary before letting the failure go
RenderExampleFailsAfterStats ==
    /\ pc = "render"
    /\ ex_i < Len(cat_indices)
    /\ written' = Append(written, File(Named("train_stats.json"),
                            [kind |-> "json",
                             dict |-> [error_rate |-> Frac(0, 1), ap_score |-> Frac(0, 1),
                                       auc_score |-> Frac(0, 1)]]))
    /\ pc' = "failed_render"
    /\ UNCHANGED <<inputs, dirs, session, locals, fig>>

\* an iteration in which dataset.datapoint, _plot_grasp, title or savefig raises:
\* no block has a handler, nor has analyze, so the run ends there
RenderExampleFails ==
    /\ pc = "render"
    /\ ex_i < Len(cat_indices)
    /\ pc' = "failed_render"
    /\ UNCHANGED <<inputs, dirs, written, session, locals, fig>>

\* the end of a block's loop: on to the next block, or to the summary statistics
EndCategory ==
    /\ pc = "render"
    /\ ex_i >= Len(cat_indices)
    /\ IF cat < NumCategories
       THEN cat' = cat + 1 /\ pc' = "shuffle"
       ELSE cat' = cat /\ pc' = "train_stats"
    /\ UNCHANGED <<inputs, dirs, written, session, model_root, model_name,
                   model_output_dir, model_config, params, gripper_mode, train_indices,
                   val_indices, i, all_predictions, all_labels, train_result, val_result,
                   cat_indices, ex_i, fig>>

\* ------------------------------------------------------ summary statistics
SummaryStats(r) == [error_rate |-> ErrorRate(r), ap_score |-> ApScore(r),
                    auc_score |-> AucScore(r)]
TrainSummaryStats(tr, vr) == SummaryStats(tr)
\* a validation summary filled from the training result
ValSummaryStatsOfTrain(tr, vr) == SummaryStats(tr)
ValSummaryStats(tr, vr) == SummaryStats(vr)

\* train_stats.json; evaluating the scores of a one-class result raises
SaveTrainStats ==
    /\ pc = "train_stats"
    /\ IF ScoresDefined(train_result)
       THEN /\ written' = Append(written, File(Named("train_stats.json"),
                                   [kind |-> "json",
                                    dict |-> TrainSummaryStats(train_result, val_result)]))
            /\ pc' = "val_stats"
       ELSE /\ pc' = "failed_train_stats"
            /\ UNCHANGED written
    /\ UNCHANGED <<inputs, dirs, session, locals, fig>>

\* val_stats.json
SaveValStats ==
    /\ pc = "val_stats"
    /\ IF ScoresDefined(val_result)
       THEN /\ written' = Append(written, File(Named("val_stats.json"),
                                   [kind |-> "json",
                                    dict |-> ValSummaryStats(train_result, val_result)]))
            /\ pc' = "curves"
       ELSE /\ pc' = "failed_val_stats"
            /\ UNCHANGED written
    /\ UNCHANGED <<inputs, dirs, session, locals, fig>>

\* ------------------------------------------------------------------ _plot
\* precision_recall.png, then roc.png
PlotCurves ==
    /\ pc = "curves"
    /\ written' = written \o <<File(Named("precision_recall.png"), Plain),
                               File(Named("roc.png"), Plain)>>
    /\ fig' = [EmptyFigure EXCEPT !.title = <<"Reciever Operating Characteristic">>]
    /\ pc' = "train_hist"
    /\ UNCHANGED <<inputs, dirs, session, locals>>

\* num_bins = min(self.num_bins, result.num_datapoints)
HistBins(configured, r) == Min(configured, NumResultDatapoints(r))
TrainHistBins(configured, tr, vr) == HistBins(configured, tr)
\* validation histograms drawn with the bin count left over from training
ValHistBinsStale(configured, tr, vr) == HistBins(configured, tr)
ValHistBins(configured, tr, vr) == HistBins(configured, vr)

\* '%s_<pos|neg>_<split>_errors_histogram.png' % (model_name), model_name being
\* the tail of os.path.split(model_output_dir)
HistogramPath(label, split) ==
    PathJoin(model_output_dir,
             PathSplit(model_output_dir)[2] \o <<"_", label, "_", split, "_errors_histogram.png">>)

Histogram(label, split, r, bins) ==
    File(HistogramPath(label, split),
         [kind |-> "histogram", split |-> split, label |-> label, bins |-> bins,
          count |-> Cardinality(IF label = "pos" THEN Positives(r) ELSE Negatives(r))])

\* the two training histograms
PlotTrainHistograms ==
    /\ pc = "train_hist"
    /\ LET bins == TrainHistBins(num_bins, train_result, val_result)
       IN  written' = written \o <<Histogram("pos", "train", train_result, bins),
                                   Histogram("neg", "train", train_result, bins)>>
    /\ fig' = [EmptyFigure EXCEPT !.title = <<"Error on Negative Training Examples">>]
    /\ pc' = "val_hist"
    /\ UNCHANGED <<inputs, dirs, session, locals>>

\* the two validation histograms; analyze then returns the two results
PlotValHistograms ==
    /\ pc = "val_hist"
    /\ LET bins == ValHistBins(num_bins, train_result, val_result)
       IN  written' = written \o <<Histogram("pos", "val", val_result, bins),
                                   Histogram("neg", "val", val_result, bins)>>
    /\ fig' = [EmptyFigure EXCEPT !.title = <<"Error on Negative Validation Examples">>]
    /\ pc' = "done"
    /\ UNCHANGED <<inputs, dirs, session, locals>>

Next ==
    \/ SplitModelRoot
    \/ MakeOutputDir
    \/ LoadModelConfig
    \/ LoadModel
    \/ ReadParams
    \/ OpenDataset
    \/ VisualizeFilters
    \/ PredictShard
    \/ CloseSession
    \/ BuildResults
    \/ BeginCategory
    \/ RenderExample
    \/ EndCategory
    \/ SaveTrainStats
    \/ SaveValStats
    \/ PlotCurves
    \/ PlotTrainHistograms
    \/ PlotValHistograms

\* the runs in which the dataset, the model and the plotting library do what
\* they are asked
Spec == Init /\ [][Next]_vars

\* the same runs, and those in which a call into the dataset, the model or the
\* plotting library raises
FaultNext ==
    \/ Next
    \/ OpenDatasetFails
    \/ PredictShardFails
    \/ RenderExampleFails

FaultSpec == Init /\ [][FaultNext]_vars

\* =================================================================== claims
\* positions of the run
ParamsRead == pc \notin {"name", "config", "load", "params", "failed_params"}
FailedBeforeClose == pc \in {"failed_params", "failed_dataset", "failed_filters",
                             "failed_predict"}
LoopFinished == ~FailedBeforeClose
                /\ pc \notin {"name", "config", "load", "params", "dataset", "filters", "predict"}
ResultsBuilt == LoopFinished /\ pc # "results" /\ train_result # NoneVal /\ val_result # NoneVal
Completed == pc = "done"

Written == Range(written)
LastToken(path) == path[Len(path)]
WrittenAs(name) == {x \in 1..Len(written) : LastToken(written[x].path) = name}

\* -------------------------------------------------------------------- C1
\* C1: every label the shard loop has appended is 0 or 1, and it is 1 exactly
\* when the datapoint's metric is strictly greater than the threshold in use
\* (a metric equal to the threshold gives 0).
C1_LabelIffMetricAboveThreshold ==
    \A d \in 1..Len(all_labels) :
        /\ all_labels[d] \in {0, 1}
        /\ all_labels[d] = 1 <=> dataset.metric[d] > params.metric_thresh
        /\ dataset.metric[d] = params.metric_thresh => all_labels[d] = 0

\* a finished loop that met a metric equal to the threshold, one above and one below
C1_Witness ==
    /\ LoopFinished
    /\ \E d \in 1..Len(all_labels) : dataset.metric[d] = params.metric_thresh /\ all_labels[d] = 0
    /\ \E d \in 1..Len(all_labels) : dataset.metric[d] > params.metric_thresh /\ all_labels[d] = 1
    /\ \E d \in 1..Len(all_labels) : dataset.metric[d] < params.metric_thresh /\ all_labels[d] = 0

\* -------------------------------------------------------------------- C2
\* prediction and label of the datapoint at 0-based flat position k, read from
\* the shard that holds it
ShardOf(k) == k \div ShardSize
PlaceInShard(k) == (k % ShardSize) + 1
ShardPrediction(k) == Predict(gqcnn, ShardOf(k))[PlaceInShard(k)][2]
ShardLabel(k) ==
    IF TensorArr(dataset.metric, ShardOf(k))[PlaceInShard(k)] > params.metric_thresh THEN 1 ELSE 0

\* C2: after the shard loop the flat prediction and label sequences hold one
\* entry per datapoint, shard after shard in ascending shard order; and each
\* split's result holds one record per entry of that split's index list,
\* record j being the prediction and label at flat position split_indices[j].
C2_FlatOrderAndSlices ==
    /\ LoopFinished =>
          /\ Len(all_predictions) = NumDatapoints
          /\ Len(all_labels) = NumDatapoints
          /\ \A k \in Datapoints :
                /\ At(all_predictions, k) = ShardPrediction(k)
                /\ At(all_labels, k) = ShardLabel(k)
    /\ ResultsBuilt =>
          /\ Len(train_result.pred_probs) = Len(train_indices)
          /\ Len(train_result.labels) = Len(train_indices)
          /\ Len(val_result.pred_probs) = Len(val_indices)
          /\ Len(val_result.labels) = Len(val_indices)
          /\ \A j \in 1..Len(train_indices) :
                /\ train_result.pred_probs[j] = ShardPrediction(train_indices[j])
                /\ train_result.labels[j] = ShardLabel(train_indices[j])
          /\ \A j \in 1..Len(val_indices) :
                /\ val_result.pred_probs[j] = ShardPrediction(val_indices[j])
                /\ val_result.labels[j] = ShardLabel(val_indices[j])

\* a completed run whose index lists are unsorted, of different lengths, and
\* leave a datapoint out of both splits
C2_Witness ==
    /\ Completed
    /\ Len(train_indices) > Len(val_indices)
    /\ Len(val_indices) >= 2
    /\ train_indices[1] > train_indices[2]
    /\ Len(train_indices) + Len(val_indices) < NumDatapoints

\* -------------------------------------------------------------------- C3
RendererFinished == pc \in {"train_stats", "val_stats", "curves", "train_hist", "val_hist", "done"}

\* the example files of block c, as positions in the order of writing
ExamplesOf(c) ==
    {x \in 1..Len(written) :
        /\ written[x].content.kind = "example"
        /\ Len(written[x].path) > 8
        /\ written[x].path[Len(written[x].path) - 7] = CatSplit(c)
        /\ written[x].path[Len(written[x].path) - 5] = CatName(c)}

\* <model_output_dir>/examples/<split>/<category>_<3 digits>.png
ExpectedExamplePath(c, n) ==
    NormDir(model_output_dir)
        \o <<SEP, "examples", SEP, CatSplit(c), SEP, CatName(c), "_",
             Digit(n \div 100), Digit((n \div 10) % 10), Digit(n % 10), ".png">>

\* C3: a block never writes more than num_vis example files, and once the
\* renderer is through (so in every run that completes) each of the eight
\* blocks has written exactly min(num_vis, size of its category) files, named
\* <category>_000.png, <category>_001.png, ... without gaps in its split's
\* examples directory.
C3_ExampleCountPerCategory ==
    \A c \in 1..NumCategories :
        /\ Cardinality(ExamplesOf(c)) <= num_vis
        /\ RendererFinished =>
              LET n == Min(num_vis, Cardinality(CategoryIndexSet(CatResult(c), CatName(c))))
              IN  /\ Cardinality(ExamplesOf(c)) = n
                  /\ {written[x].path : x \in ExamplesOf(c)}
                        = {ExpectedExamplePath(c, m) : m \in 0..(n - 1)}

\* a completed run in which the cap cuts one category short and leaves another whole
C3_Witness ==
    /\ Completed
    /\ num_vis >= 1
    /\ \E c \in 1..NumCategories :
          Cardinality(CategoryIndexSet(CatResult(c), CatName(c))) > num_vis
    /\ \E c \in 1..NumCategories :
          /\ Cardinality(CategoryIndexSet(CatResult(c), CatName(c))) >= 1
          /\ Cardinality(CategoryIndexSet(CatResult(c), CatName(c))) <= num_vis

\* -------------------------------------------------------------------- C4
\* C4: once the parameters are read, with a dataset_config all six dataset
\* parameters and the gripper mode are dataset_config's; without one the six
\* are config.json's and the gripper mode is the opened model's.
C4_ParamsFromOneSource ==
    ParamsRead =>
        IF dataset_config # NoneVal
        THEN /\ params.dataset_dir = dataset_config.dataset_dir
             /\ params.split_name = dataset_config.split_name
             /\ params.image_field_name = dataset_config.image_field_name
             /\ params.pose_field_name = dataset_config.pose_field_name
             /\ params.metric_name = dataset_config.target_metric_name
             /\ params.metric_thresh = dataset_config.metric_thresh
             /\ gripper_mode = dataset_config.gripper_mode
        ELSE /\ params.dataset_dir = config_json.dataset_dir
             /\ params.split_name = config_json.split_name
             /\ params.image_field_name = config_json.image_field_name
             /\ params.pose_field_name = config_json.pose_field_name
             /\ params.metric_name = config_json.target_metric_name
             /\ params.metric_thresh = config_json.metric_thresh
             /\ gripper_mode = gqcnn.gripper_mode

\* a completed run whose dataset_config disagrees with config.json on the
\* threshold and with the model on the gripper mode
C4_Witness ==
    /\ Completed
    /\ dataset_config # NoneVal
    /\ config_json \in ModelConfigs
    /\ dataset_config.metric_thresh # config_json.metric_thresh
    /\ dataset_config.gripper_mode # gqcnn.gripper_mode
    /\ dataset_config.dataset_dir # config_json.dataset_dir

\* -------------------------------------------------------------------- C5
Calls(name) == {x \in 1..Len(session) : session[x][1] = name}
IsPredict(call) == call[1] = "predict"
PredictCalls == SelectSeq(session, IsPredict)

\* C5: the session is opened at most once and closed at most once; inference
\* is called on shard 0, 1, 2, ... in that order, each call after the open;
\* nothing is called on the handle after the close; and once the loop is left
\* (so in every run that completes) there is exactly one open, exactly one
\* close, and exactly one inference call per shard.
C5_SessionDiscipline ==
    /\ Cardinality(Calls("open_session")) <= 1
    /\ Cardinality(Calls("close_session")) <= 1
    /\ \A x \in 1..Len(PredictCalls) : PredictCalls[x] = <<"predict", x - 1>>
    /\ \A x \in Calls("predict") : \E o \in Calls("open_session") : o < x
    /\ \A x \in Calls("close_session") : x = Len(session)
    /\ LoopFinished =>
          /\ Cardinality(Calls("open_session")) = 1
          /\ Cardinality(Calls("close_session")) = 1
          /\ Len(PredictCalls) = NumShards

\* a completed run, which has called inference on several shards
C5_Witness ==
    /\ Completed
    /\ Len(PredictCalls) >= 2
    /\ Calls("close_session") # {}

\* -------------------------------------------------------------------- C6
\* C6: every example image written shows the grasp overlay, the parallel-jaw
\* depiction for the parallel-jaw gripper modes and the suction one otherwise.
C6_EveryExampleShowsGrasp ==
    \A x \in 1..Len(written) :
        written[x].content.kind = "example" =>
            written[x].content.overlay =
                (IF gripper_mode \in {PARALLEL_JAW, LEGACY_PARALLEL_JAW}
                 THEN "Grasp2D" ELSE "SuctionPoint2D")

\* -------------------------------------------------------------------- C7
\* the stage of the run a file belongs to: 0 the filter grid, 1 the serialized
\* results, 2 the example images, 3 the summary JSON files, 4 the curves and
\* histograms
Stage(file) ==
    CASE file.content.kind = "result" -> 1
      [] file.content.kind = "example" -> 2
      [] file.content.kind = "json" -> 3
      [] file.content.kind = "histogram" -> 4
      [] file.content.kind = "plain"
            /\ LastToken(file.path) \in {"precision_recall.png", "roc.png"} -> 4
      [] OTHER -> 0

\* C7: nothing is written before the model output directory exists; the files
\* are written stage by stage (results, then examples, then summary JSON, then
\* curves and histograms); a summary JSON file exists only with both .cres
\* files, and precision_recall.png only with both summary JSON files.
C7_ArtifactOrder ==
    /\ written # <<>> => NormDir(PathJoin(output_dir, model_name)) \in dirs
    /\ \A x \in 1..Len(written) :
          /\ Len(written[x].path) > Len(model_output_dir)
          /\ SubSeq(written[x].path, 1, Len(model_output_dir)) = model_output_dir
    /\ \A x, y \in 1..Len(written) :
          (x < y /\ Stage(written[x]) > 0) => Stage(written[x]) <= Stage(written[y])
    /\ (WrittenAs("train_stats.json") # {} \/ WrittenAs("val_stats.json") # {}) =>
          /\ WrittenAs("train_result.cres") # {}
          /\ WrittenAs("val_result.cres") # {}
    /\ WrittenAs("precision_recall.png") # {} =>
          /\ WrittenAs("train_stats.json") # {}
          /\ WrittenAs("val_stats.json") # {}
    /\ \A x \in 1..Len(written) : Stage(written[x]) = 4 =>
          /\ WrittenAs("train_stats.json") # {}
          /\ WrittenAs("val_stats.json") # {}

\* a completed run that wrote examples for both splits into a directory it created
C7_Witness ==
    /\ Completed
    /\ ExamplesOf(CatOf("train", "true_negative")) # {}
    /\ ExamplesOf(CatOf("val", "true_positive")) # {}
    /\ Cardinality({x \in 1..Len(written) : Stage(written[x]) = 4}) = 6

\* -------------------------------------------------------------------- C8
Histograms == {x \in 1..Len(written) : written[x].content.kind = "histogram"}
DatapointsOf(split) ==
    IF split = "train" THEN Len(train_result.labels) ELSE Len(val_result.labels)

\* C8: every histogram written for a split uses min(configured num_bins, number
\* of datapoints of that split's result) bins, whatever the number of
\* datapoints the histogram itself counts.
C8_HistogramBins ==
    /\ \A x \in Histograms :
          written[x].content.bins
              = Min(num_bins, DatapointsOf(written[x].content.split))
    /\ Completed =>
          \A split \in {"train", "val"}, label \in {"pos", "neg"} :
              \E x \in Histograms : /\ written[x].content.split = split
                                    /\ written[x].content.label = label

\* a completed run where the two splits get different bin counts and a training
\* histogram holds fewer datapoints than it has bins
C8_Witness ==
    /\ Completed
    /\ Min(num_bins, DatapointsOf("train")) # Min(num_bins, DatapointsOf("val"))
    /\ \E x \in Histograms : written[x].content.count < written[x].content.bins

\* -------------------------------------------------------------------- C9
\* the last non-empty component of a path: what follows the last separator
\* once trailing separators are dropped
LastComponent(p) == LET q == RStrip(p) IN SubSeq(q, LastSep(q) + 1, Len(q))

\* C9: the model-name loop terminates for every model_dir (an iteration that
\* is taken changes model_root or model_name, so the loop cannot repeat a
\* state), and after it model_name is the last non-empty component of
\* model_dir and names the output directory output_dir/model_name.
C9_NameLoopTerminates ==
    /\ (pc = "name" /\ NameLoopGuard) => PathSplit(model_root) # <<model_root, model_name>>
    /\ pc # "name" =>
          /\ model_name = LastComponent(model_dir)
          /\ model_output_dir = output_dir \o <<SEP>> \o LastComponent(model_dir)

\* ------------------------------------------------------------------- C10
StatsFiles == {x \in 1..Len(written) : written[x].content.kind = "json"}
ResultOfStatsFile(file) ==
    IF LastToken(file.path) = "train_stats.json" THEN train_result ELSE val_result

\* C10: each summary JSON file holds exactly the keys error_rate, ap_score and
\* auc_score; each value is that statistic of the file's own split result and
\* lies in [0, 1].
C10_SummaryStats ==
    \A x \in StatsFiles :
        LET d == written[x].content.dict
            r == ResultOfStatsFile(written[x])
        IN  /\ LastToken(written[x].path) \in {"train_stats.json", "val_stats.json"}
            /\ DOMAIN d = {"error_rate", "ap_score", "auc_score"}
            /\ d.error_rate = ErrorRate(r)
            /\ d.ap_score = ApScore(r)
            /\ d.auc_score = AucScore(r)
            /\ InUnitInterval(d.error_rate)
            /\ InUnitInterval(d.ap_score)
            /\ InUnitInterval(d.auc_score)

\* a completed run whose two summary files differ in every statistic
C10_Witness ==
    /\ Completed
    /\ \E x, y \in StatsFiles :
          /\ LastToken(written[x].path) = "train_stats.json"
          /\ LastToken(written[y].path) = "val_stats.json"
          /\ written[x].content.dict.error_rate # written[y].content.dict.error_rate
          /\ written[x].content.dict.auc_score # written[y].content.dict.auc_score
          /\ written[x].content.dict.ap_score # written[y].content.dict.ap_score

\* ---- C11
\* the example a block has just rendered: entry ex_i - 1 of its category indices
JustRendered == pc = "render" /\ ex_i >= 1
RenderedPosition == At(cat_indices, ex_i - 1)
\* the index list and the result of the split the current block belongs to
OwnIndices == IF cat <= Len(CategoryNames) THEN train_indices ELSE val_indices
OwnResult == IF cat <= Len(CategoryNames) THEN train_result ELSE val_result
OtherIndices == IF cat <= Len(CategoryNames) THEN val_indices ELSE train_indices

\* C11: for every rendered example the category index j is mapped to the
\* datapoint index k through the index list of the block's own split; the
\* datapoint shown is k, and the title carries k with entries j of that split's
\* result, which are the flat-sequence prediction and label of datapoint k.
C11_IndexMapping ==
    JustRendered =>
        LET j == RenderedPosition
            k == At(OwnIndices, j)
        IN  /\ j \in CategoryIndexSet(OwnResult, CatName(cat))
            /\ fig.image = [shown |-> TRUE, of |-> Datapoint(dataset, k).image]
            /\ fig.title = <<k, At(OwnResult.pred_probs, j), At(OwnResult.labels, j)>>
            /\ fig.title[2] = At(all_predictions, k)
            /\ fig.title[3] = At(all_labels, k)
            /\ fig.title[2] = ShardPrediction(k)
            /\ fig.title[3] = ShardLabel(k)

\* a validation example whose position names another datapoint, with another
\* prediction, in the training index list
C11_Witness ==
    /\ JustRendered
    /\ cat > Len(CategoryNames)
    /\ RenderedPosition < Len(OtherIndices)
    /\ At(OtherIndices, RenderedPosition) # At(OwnIndices, RenderedPosition)
    /\ At(OtherIndices, RenderedPosition) # RenderedPosition
    /\ At(all_predictions, At(OtherIndices, RenderedPosition)) # fig.title[2]

\* ---- C12
RenderFailed == pc = "failed_render"
AllExamples == UNION {ExamplesOf(c) : c \in 1..NumCategories}
\* the directories a run finds or creates
RunDirs == {output_dir, EarlierOutputDir, NormDir(model_output_dir), NormDir(ExampleDir),
            NormDir(SplitExampleDir("train")), NormDir(SplitExampleDir("val"))}

\* C12: when the rendering of an example fails the run ends there: nothing is
\* written after the failure (no example of the failing block past the ones
\* before the failure, none of a later block, no summary JSON, no curve, no
\* histogram), the filter grid, both .cres files and the earlier examples are
\* still there, and the output directory holds nothing else, so no file or
\* directory tells the run was cut short.
C12_RenderFailureStopsRun ==
    RenderFailed =>
        /\ ~ENABLED FaultNext
        /\ \A x \in 1..Len(written) : Stage(written[x]) <= 2
        /\ WrittenAs("train_stats.json") = {} /\ WrittenAs("val_stats.json") = {}
        /\ WrittenAs("conv1_filters.pdf") = {1}
        /\ WrittenAs("train_result.cres") = {2}
        /\ WrittenAs("val_result.cres") = {3}
        /\ Len(written) = 3 + Cardinality(AllExamples)
        /\ dirs \subseteq RunDirs
        /\ ex_i < Len(cat_indices)
        /\ \A c \in 1..NumCategories :
              LET n == IF c < cat
                       THEN Min(num_vis, Cardinality(CategoryIndexSet(CatResult(c), CatName(c))))
                       ELSE IF c = cat THEN ex_i ELSE 0
              IN  {written[x].path : x \in ExamplesOf(c)}
                      = {ExpectedExamplePath(c, m) : m \in 0..(n - 1)}

\* a failure in a validation block after an example of that block and examples
\* of a training block were written
C12_Witness ==
    /\ RenderFailed
    /\ cat > Len(CategoryNames)
    /\ ex_i >= 1
    /\ \E c \in 1..Len(CategoryNames) : ExamplesOf(c) # {}
    /\ \E c \in (cat + 1)..NumCategories :
           CategoryIndexSet(CatResult(c), CatName(c)) # {}

\* ---- C13
SessionOpen == Cardinality(Calls("open_session")) > Cardinality(Calls("close_session"))

\* C13: close_session is called only after the loop over the shards has run to
\* its end; a failure after open_session and before the close call (a missing
\* key, the dataset or its split, the filter grid, a shard read, the pose
\* decoding, inference) ends the run with the session open and without any
\* close call.
C13_CloseOnlyOnSuccess ==
    /\ FailedBeforeClose =>
          /\ Calls("open_session") # {}
          /\ Calls("close_session") = {}
          /\ SessionOpen
          /\ ~ENABLED FaultNext
    /\ Calls("close_session") # {} =>
          /\ LoopFinished
          /\ \A x \in Calls("predict") : \A y \in Calls("close_session") : x < y
          /\ Len(PredictCalls) = NumShards
          /\ Len(all_predictions) = NumDatapoints

\* inference failing on a later shard, after a shard went through
C13_Witness ==
    /\ pc = "failed_predict"
    /\ i >= 1
    /\ Len(PredictCalls) = i + 1
    /\ SessionOpen
====
